---- MODULE Spec2Model ----
(***************************************************************************)
(* Presence-aware message delivery and status tracking of the chat         *)
(* backend (src/index.js, src/models/Messages.js).                         *)
(*                                                                         *)
(* The server is a single-threaded event loop.  A handler runs atomically  *)
(* up to its next await on the message store; the store executes an        *)
(* operation at some later moment, and the handler resumes at some moment  *)
(* after that.  Each of these is one action of the model.  The clients'    *)
(* requests are bounded by a quota per kind of request.                    *)
(***************************************************************************)
EXTENDS Integers, Sequences, FiniteSets, TLC

VARIABLES
    alive,        \* the server process is running
    nextSock,     \* next fresh socket.id
    open,         \* socket ids of the connections that are currently open
    rooms,        \* rooms[s]: the rooms socket s has joined (socket.join)
    onlineUsers,  \* the presence registry, in property insertion order
    nextId,       \* next fresh message _id
    db,           \* the Messages collection: _id -> document
    sends,        \* send_message handlers by the _id they create: newMessage,
                  \* where the handler stands, and whether the sender was
                  \* registered when the request arrived
    joins,        \* join handlers (the reconnect flush), in arrival order
    seens,        \* mark_seen handlers, in arrival order
    emitted,      \* emitted[m]: the receive_message, message_delivered and
                  \* message_seen events emitted for message m so far, in order
    signals,      \* the typing and stop_typing events emitted so far, in order
    quota         \* the requests the clients still make, by kind

vars == <<alive, nextSock, open, rooms, onlineUsers, nextId, db, sends, joins,
          seens, emitted, signals, quota>>

(* ---------------------------- bounds ----------------------------------- *)
MaxSockets == 2
MaxMsgs == 1
MaxJoins == 2
MaxSeens == 1
MaxTyping == 1
\* the requests of the clients that mark messages seen again and again
SeenSockets == 1
SeenMsgs == 2
SeenJoins == 1
SeenSeens == 2
\* the requests of the clients while store calls of a flush fail
FailSockets == 1
FailMsgs == 2
FailJoins == 2
\* the joins of the clients that reconnect again and again
FlushJoins == 3

Max(a, b) == IF a >= b THEN a ELSE b

(* ---------------------------- inputs ----------------------------------- *)
Users == {"A", "B"}
Ids == 1..Max(Max(MaxMsgs, SeenMsgs), FailMsgs)
\* the send_message requests the clients make: a well-formed one, and one
\* with an empty sender, receiver or message
Requests == { [sender |-> "A", receiver |-> "B", message |-> "hi"],
              [sender |-> "", receiver |-> "B", message |-> "hi"],
              [sender |-> "A", receiver |-> "", message |-> "hi"],
              [sender |-> "A", receiver |-> "B", message |-> ""] }
\* the typing and stop_typing requests the clients make
Signals == { [sender |-> "A", receiver |-> "B"] }
Sockets == 1..Max(Max(MaxSockets, SeenSockets), FailSockets)
\* the join handlers and the mark_seen handlers, in arrival order
Joins == 1..Max(Max(Max(MaxJoins, SeenJoins), FailJoins), FlushJoins)
Seens == 1..Max(MaxSeens, SeenSeens)
None == 0
NoId == 0

(* ------------------------ the presence registry ------------------------ *)
\* onlineUsers[user]
Lookup(reg, u) ==
    IF \E i \in 1..Len(reg) : reg[i].user = u
    THEN LET i == CHOOSE i \in 1..Len(reg) : reg[i].user = u IN reg[i].id
    ELSE None

\* the truthiness test  if (onlineUsers[user])
Online(u) == Lookup(onlineUsers, u) # None

\* a registry that adds an entry at every join
RegisterAppend(reg, u, s) == Append(reg, [user |-> u, id |-> s])

\* onlineUsers[username] = socket.id : an existing property keeps its place,
\* a new one is added last
Register(reg, u, s) ==
    IF \E i \in 1..Len(reg) : reg[i].user = u
    THEN [i \in 1..Len(reg) |->
             IF reg[i].user = u THEN [user |-> u, id |-> s] ELSE reg[i]]
    ELSE Append(reg, [user |-> u, id |-> s])

\* a disconnect that removes the entries of the identities the closing
\* connection joined as, whichever connection they hold
UnregisterIdentity(reg, s) == SelectSeq(reg, LAMBDA e : e.user \notin rooms[s])

\* for (let user in onlineUsers) if (onlineUsers[user] === socket.id)
\*     { delete onlineUsers[user]; break; }
Unregister(reg, s) ==
    IF \E i \in 1..Len(reg) : reg[i].id = s
    THEN LET k == CHOOSE i \in 1..Len(reg) :
                      /\ reg[i].id = s
                      /\ \A j \in 1..(i-1) : reg[j].id # s
         IN  [i \in 1..(Len(reg)-1) |-> IF i < k THEN reg[i] ELSE reg[i+1]]
    ELSE reg

(* ------------------------------ emitting ------------------------------- *)
\* the sockets that are in room r
Room(r) == {s \in Sockets : r \in rooms[s]}

Event(ev, r, id, sender, receiver, message, status) ==
    [event |-> ev, room |-> r, id |-> id, sender |-> sender,
     receiver |-> receiver, message |-> message, status |-> status,
     to |-> Room(r)]

\* io.to(sender).emit("receive_message", doc)
ReceiveMessage(r, id, doc) ==
    Event("receive_message", r, id, doc.sender, doc.receiver, doc.message,
          doc.status)

\* io.to(room).emit("message_delivered" | "message_seen", { messageId })
Receipt(ev, r, id) == Event(ev, r, id, "", "", "", "")

\* io.to(receiver).emit("typing" | "stop_typing", { sender })
Signal(ev, r, sender) == Event(ev, r, NoId, sender, "", "", "")

\* the event log after one more emit
Emit(log, e) == [log EXCEPT ![e.id] = Append(@, e)]

(* ------------------------------- Init ---------------------------------- *)
\* the server after start-up: nobody connected, an empty store
Start ==
    /\ alive = TRUE
    /\ nextSock = 1
    /\ open = {}
    /\ rooms = [s \in Sockets |-> {}]
    /\ onlineUsers = <<>>
    /\ nextId = 1
    /\ db = <<>>
    /\ sends = <<>>
    /\ joins = <<>>
    /\ seens = <<>>
    /\ emitted = [i \in {NoId} \cup Ids |-> <<>>]
    /\ signals = <<>>

\* the clients connect, join, send and mark messages seen
Init ==
    /\ Start
    /\ quota = [sockets |-> MaxSockets, msgs |-> MaxMsgs, joins |-> MaxJoins,
                seens |-> MaxSeens, typing |-> 0]

\* the clients send more messages and mark them seen more often
InitSeen ==
    /\ Start
    /\ quota = [sockets |-> SeenSockets, msgs |-> SeenMsgs, joins |-> SeenJoins,
                seens |-> SeenSeens, typing |-> 0]

\* the clients connect, join, send and signal typing
InitTyping ==
    /\ Start
    /\ quota = [sockets |-> MaxSockets, msgs |-> MaxMsgs, joins |-> MaxJoins,
                seens |-> 0, typing |-> MaxTyping]

\* the clients connect, join and send while store calls of a flush fail
InitFail ==
    /\ Start
    /\ quota = [sockets |-> FailSockets, msgs |-> FailMsgs, joins |-> FailJoins,
                seens |-> 0, typing |-> 0]

\* the clients connect, send and join again and again
InitFlush ==
    /\ Start
    /\ quota = [sockets |-> MaxSockets, msgs |-> MaxMsgs, joins |-> FlushJoins,
                seens |-> 0, typing |-> 0]

\* the clients connect, join and send
InitLive ==
    /\ Start
    /\ quota = [sockets |-> MaxSockets, msgs |-> MaxMsgs, joins |-> MaxJoins,
                seens |-> 0, typing |-> 0]

\* one more request of a kind the clients still make
Spend(kind) ==
    /\ quota[kind] > 0
    /\ quota' = [quota EXCEPT ![kind] = @ - 1]

(* ---------------------------- connections ------------------------------ *)
\* io.on('connection', (socket) => ...)
Connect ==
    /\ alive
    /\ Spend("sockets")
    /\ open' = open \cup {nextSock}
    /\ nextSock' = nextSock + 1
    /\ UNCHANGED <<alive, rooms, onlineUsers, nextId, db, sends, joins, seens,
                   emitted, signals>>

\* a disconnect that marks the backlog of the identities it joined as
DisconnectMarking(s) ==
    /\ alive
    /\ UNCHANGED quota
    /\ s \in open
    /\ open' = open \ {s}
    /\ rooms' = [rooms EXCEPT ![s] = {}]
    /\ onlineUsers' = Unregister(onlineUsers, s)
    /\ db' = [i \in DOMAIN db |->
                 IF db[i].receiver \in rooms[s] /\ db[i].status = "sent"
                 THEN [db[i] EXCEPT !.status = "delivered"]
                 ELSE db[i]]
    /\ UNCHANGED <<alive, nextSock, nextId, sends, joins, seens, emitted,
                   signals>>

\* socket.on("disconnect"): the socket has left its rooms, then the handler
\* removes the first registry entry that holds socket.id
Disconnect(s) ==
    /\ alive
    /\ UNCHANGED quota
    /\ s \in open
    /\ open' = open \ {s}
    /\ rooms' = [rooms EXCEPT ![s] = {}]
    /\ onlineUsers' = Unregister(onlineUsers, s)
    /\ UNCHANGED <<alive, nextSock, nextId, db, sends, joins, seens, emitted,
                   signals>>

(* --------------------------- the store --------------------------------- *)
\* messageSchema: sender, receiver and message are required strings, and an
\* empty string fails the required validator
Valid(doc) == doc.sender # "" /\ doc.receiver # "" /\ doc.message # ""

\* Messages.find({ receiver: username, status: "sent" })
Pending(u) == {i \in DOMAIN db : db[i].receiver = u /\ db[i].status = "sent"}

\* the update a save() or findByIdAndUpdate sends: $set of status alone
SetStatus(id, st) ==
    IF id \in DOMAIN db THEN [db EXCEPT ![id].status = st] ELSE db

\* document.save() of a new document
Insert(id, doc) == [i \in DOMAIN db \cup {id} |-> IF i = id THEN doc ELSE db[i]]

(* ------------------- a rejected promise nobody handles ------------------ *)
\* No handler catches a rejected store call and no unhandledRejection hook is
\* installed: depending on the runtime's unhandled-rejections mode the
\* process logs a warning and goes on, or terminates.
Terminate ==
    /\ alive' = FALSE
    /\ open' = {}
    /\ rooms' = [s \in Sockets |-> {}]
    /\ onlineUsers' = <<>>

Unhandled ==
    \/ UNCHANGED <<alive, open, rooms, onlineUsers>>
    \/ Terminate

(* ------------------------------- join ---------------------------------- *)
\* socket.on("join"): register, join the room, start the query for the backlog
Join(s, u) ==
    /\ alive
    /\ s \in open
    /\ Spend("joins")
    /\ onlineUsers' = Register(onlineUsers, u, s)
    /\ rooms' = [rooms EXCEPT ![s] = @ \cup {u}]
    /\ joins' = Append(joins, [user |-> u, sock |-> s, pc |-> "find",
                               found |-> {}, saving |-> {}, saved |-> {}])
    /\ UNCHANGED <<alive, nextSock, open, nextId, db, sends, seens, emitted,
                   signals>>

\* a flush whose callback issues no save
FlushFindIdle(j) ==
    /\ alive
    /\ UNCHANGED quota
    /\ j \in 1..Len(joins)
    /\ joins[j].pc = "find"
    /\ joins' = [joins EXCEPT ![j].pc = "done",
                              ![j].found = Pending(joins[j].user)]
    /\ UNCHANGED <<alive, nextSock, open, rooms, onlineUsers, nextId, db,
                   sends, seens, emitted, signals>>

\* the store executes the query, and
\* .then(pendingMessages => pendingMessages.forEach(async (msg) => ...))
\* runs every callback up to its await: every save is issued
FlushFind(j) ==
    /\ alive
    /\ UNCHANGED quota
    /\ j \in 1..Len(joins)
    /\ joins[j].pc = "find"
    /\ joins' = [joins EXCEPT ![j].pc = "done",
                              ![j].found = Pending(joins[j].user),
                              ![j].saving = Pending(joins[j].user)]
    /\ UNCHANGED <<alive, nextSock, open, rooms, onlineUsers, nextId, db,
                   sends, seens, emitted, signals>>

\* the store executes msg.save() of one pending message
FlushSave(j, id) ==
    /\ alive
    /\ UNCHANGED quota
    /\ j \in 1..Len(joins)
    /\ id \in joins[j].saving
    /\ db' = SetStatus(id, "delivered")
    /\ joins' = [joins EXCEPT ![j].saving = @ \ {id},
                              ![j].saved = @ \cup {id}]
    /\ UNCHANGED <<alive, nextSock, open, rooms, onlineUsers, nextId, sends,
                   seens, emitted, signals>>

\* msg.save() of one pending message rejects (the store is unavailable): the
\* callback of that message ends at its await
FlushSaveFail(j, id) ==
    /\ alive
    /\ UNCHANGED quota
    /\ j \in 1..Len(joins)
    /\ id \in joins[j].saving
    /\ joins' = [joins EXCEPT ![j].saving = @ \ {id}]
    /\ Unhandled
    /\ UNCHANGED <<nextSock, nextId, db, sends, seens, emitted, signals>>

\* a flush that notifies the sender without the presence check
FlushNotifyAlways(j, id) ==
    /\ alive
    /\ UNCHANGED quota
    /\ j \in 1..Len(joins)
    /\ id \in joins[j].saved
    /\ joins' = [joins EXCEPT ![j].saved = @ \ {id}]
    /\ emitted' = Emit(emitted, Receipt("message_delivered", db[id].sender, id))
    /\ UNCHANGED <<alive, nextSock, open, rooms, onlineUsers, nextId, db,
                   sends, seens, signals>>

\* after await msg.save(): notify the sender if it is registered
FlushNotify(j, id) ==
    /\ alive
    /\ UNCHANGED quota
    /\ j \in 1..Len(joins)
    /\ id \in joins[j].saved
    /\ joins' = [joins EXCEPT ![j].saved = @ \ {id}]
    /\ emitted' = IF Online(db[id].sender)
                  THEN Emit(emitted,
                            Receipt("message_delivered", db[id].sender, id))
                  ELSE emitted
    /\ UNCHANGED <<alive, nextSock, open, rooms, onlineUsers, nextId, db,
                   sends, seens, signals>>

(* --------------------------- send_message ------------------------------ *)
\* socket.on("send_message"): build the document (status "sent") and issue
\* the first save
SendMessage(s, r) ==
    /\ alive
    /\ s \in open
    /\ Spend("msgs")
    /\ sends' = [i \in DOMAIN sends \cup {nextId} |->
                    IF i = nextId
                    THEN [sender |-> r.sender, receiver |-> r.receiver,
                          message |-> r.message, status |-> "sent",
                          pc |-> "insert",
                          registered |-> Online(r.sender)]
                    ELSE sends[i]]
    /\ nextId' = nextId + 1
    /\ UNCHANGED <<alive, nextSock, open, rooms, onlineUsers, db, joins, seens,
                   emitted, signals>>

\* newMessage as the store and the clients see it
Doc(h) == [sender |-> h.sender, receiver |-> h.receiver,
           message |-> h.message, status |-> h.status]

\* the store executes the first save
SendInsert(id) ==
    /\ alive
    /\ UNCHANGED quota
    /\ id \in DOMAIN sends
    /\ sends[id].pc = "insert"
    /\ Valid(sends[id])
    /\ db' = Insert(id, Doc(sends[id]))
    /\ sends' = [sends EXCEPT ![id].pc = "inserted"]
    /\ UNCHANGED <<alive, nextSock, open, rooms, onlineUsers, nextId, joins,
                   seens, emitted, signals>>

\* the first save rejects (validation error, or the store is unavailable):
\* the handler ends at its await
SendInsertFail(id) ==
    /\ alive
    /\ UNCHANGED quota
    /\ id \in DOMAIN sends
    /\ sends[id].pc = "insert"
    /\ sends' = [sends EXCEPT ![id].pc = "failed"]
    /\ Unhandled
    /\ UNCHANGED <<nextSock, nextId, db, joins, seens, emitted, signals>>

\* a send that emits to the receiver only if it is registered
SendEmitOnline(id) ==
    /\ alive
    /\ UNCHANGED quota
    /\ id \in DOMAIN sends
    /\ sends[id].pc = "inserted"
    /\ emitted' =
          IF Online(sends[id].receiver)
          THEN Emit(Emit(emitted,
                         ReceiveMessage(sends[id].sender, id, Doc(sends[id]))),
                    ReceiveMessage(sends[id].receiver, id, Doc(sends[id])))
          ELSE Emit(emitted, ReceiveMessage(sends[id].sender, id, Doc(sends[id])))
    /\ sends' = IF Online(sends[id].receiver)
                THEN [sends EXCEPT ![id].pc = "update",
                                   ![id].status = "delivered"]
                ELSE [sends EXCEPT ![id].pc = "done"]
    /\ UNCHANGED <<alive, nextSock, open, rooms, onlineUsers, nextId, db, joins,
                   seens, signals>>

\* a send whose presence check looks the sender up
SendEmitSender(id) ==
    /\ alive
    /\ UNCHANGED quota
    /\ id \in DOMAIN sends
    /\ sends[id].pc = "inserted"
    /\ emitted' =
          Emit(Emit(emitted,
                    ReceiveMessage(sends[id].sender, id, Doc(sends[id]))),
               ReceiveMessage(sends[id].receiver, id, Doc(sends[id])))
    /\ sends' = IF Online(sends[id].sender)
                THEN [sends EXCEPT ![id].pc = "update",
                                   ![id].status = "delivered"]
                ELSE [sends EXCEPT ![id].pc = "done"]
    /\ UNCHANGED <<alive, nextSock, open, rooms, onlineUsers, nextId, db, joins,
                   seens, signals>>

\* after the first save: emit to both rooms, then the presence check
SendEmit(id) ==
    /\ alive
    /\ UNCHANGED quota
    /\ id \in DOMAIN sends
    /\ sends[id].pc = "inserted"
    /\ emitted' =
          Emit(Emit(emitted,
                    ReceiveMessage(sends[id].sender, id, Doc(sends[id]))),
               ReceiveMessage(sends[id].receiver, id, Doc(sends[id])))
    /\ sends' = IF Online(sends[id].receiver)
                THEN [sends EXCEPT ![id].pc = "update",
                                   ![id].status = "delivered"]
                ELSE [sends EXCEPT ![id].pc = "done"]
    /\ UNCHANGED <<alive, nextSock, open, rooms, onlineUsers, nextId, db, joins,
                   seens, signals>>

\* the store executes the second save
SendUpdate(id) ==
    /\ alive
    /\ UNCHANGED quota
    /\ id \in DOMAIN sends
    /\ sends[id].pc = "update"
    /\ db' = SetStatus(id, sends[id].status)
    /\ sends' = [sends EXCEPT ![id].pc = "updated"]
    /\ UNCHANGED <<alive, nextSock, open, rooms, onlineUsers, nextId, joins,
                   seens, emitted, signals>>

\* after the second save: message_delivered to the sender's room
SendNotify(id) ==
    /\ alive
    /\ UNCHANGED quota
    /\ id \in DOMAIN sends
    /\ sends[id].pc = "updated"
    /\ emitted' = Emit(emitted,
                       Receipt("message_delivered", sends[id].sender, id))
    /\ sends' = [sends EXCEPT ![id].pc = "done"]
    /\ UNCHANGED <<alive, nextSock, open, rooms, onlineUsers, nextId, db, joins,
                   seens, signals>>

(* ------------------------ typing / stop_typing ------------------------- *)
\* a relay without the presence check
TypingAlways(s, kind, sender, receiver) ==
    /\ alive
    /\ s \in open
    /\ Spend("typing")
    /\ signals' = Append(signals, Signal(kind, receiver, sender))
    /\ UNCHANGED <<alive, nextSock, open, rooms, onlineUsers, nextId, db, sends,
                   joins, seens, emitted>>

\* socket.on("typing") and socket.on("stop_typing")
Typing(s, kind, sender, receiver) ==
    /\ alive
    /\ s \in open
    /\ Spend("typing")
    /\ signals' = IF Online(receiver)
                  THEN Append(signals, Signal(kind, receiver, sender))
                  ELSE signals
    /\ UNCHANGED <<alive, nextSock, open, rooms, onlineUsers, nextId, db, sends,
                   joins, seens, emitted>>

(* ----------------------------- mark_seen ------------------------------- *)
\* socket.on("mark_seen"), for the _id of a stored message or for one that
\* names no message: issue findByIdAndUpdate
MarkSeen(s, id, sender) ==
    /\ alive
    /\ s \in open
    /\ id \in DOMAIN db \cup {NoId}
    /\ Spend("seens")
    /\ seens' = Append(seens, [id |-> id, sender |-> sender, pc |-> "update"])
    /\ UNCHANGED <<alive, nextSock, open, rooms, onlineUsers, nextId, db, sends,
                   joins, emitted, signals>>

\* a mark_seen that updates every message of the sender it names
SeenUpdateMany(k) ==
    /\ alive
    /\ UNCHANGED quota
    /\ k \in 1..Len(seens)
    /\ seens[k].pc = "update"
    /\ db' = [i \in DOMAIN db |->
                 IF db[i].sender = seens[k].sender
                 THEN [db[i] EXCEPT !.status = "seen"] ELSE db[i]]
    /\ seens' = [seens EXCEPT ![k].pc = "updated"]
    /\ UNCHANGED <<alive, nextSock, open, rooms, onlineUsers, nextId, sends,
                   joins, emitted, signals>>

\* the store executes findByIdAndUpdate(messageId, { status: "seen" })
SeenUpdate(k) ==
    /\ alive
    /\ UNCHANGED quota
    /\ k \in 1..Len(seens)
    /\ seens[k].pc = "update"
    /\ db' = SetStatus(seens[k].id, "seen")
    /\ seens' = [seens EXCEPT ![k].pc = "updated"]
    /\ UNCHANGED <<alive, nextSock, open, rooms, onlineUsers, nextId, sends,
                   joins, emitted, signals>>

\* after the await: message_seen to the room the request names, if registered
SeenNotify(k) ==
    /\ alive
    /\ UNCHANGED quota
    /\ k \in 1..Len(seens)
    /\ seens[k].pc = "updated"
    /\ emitted' = IF Online(seens[k].sender)
                  THEN Emit(emitted,
                            Receipt("message_seen", seens[k].sender, seens[k].id))
                  ELSE emitted
    /\ seens' = [seens EXCEPT ![k].pc = "done"]
    /\ UNCHANGED <<alive, nextSock, open, rooms, onlineUsers, nextId, db, sends,
                   joins, signals>>

(* ------------------------------- Next ---------------------------------- *)
\* connections, presence and the reconnect flush
Presence ==
    \/ Connect
    \/ \E s \in Sockets : Disconnect(s)
    \/ \E s \in Sockets, u \in Users : Join(s, u)
    \/ \E j \in Joins : FlushFind(j)
    \/ \E j \in Joins, id \in Ids : FlushSave(j, id)
    \/ \E j \in Joins, id \in Ids : FlushNotify(j, id)

Sending ==
    \/ \E s \in Sockets, r \in Requests : SendMessage(s, r)
    \/ \E id \in Ids : SendInsert(id)
    \/ \E id \in Ids : SendInsertFail(id)
    \/ \E id \in Ids : SendEmit(id)
    \/ \E id \in Ids : SendUpdate(id)
    \/ \E id \in Ids : SendNotify(id)

Seeing ==
    \/ \E s \in Sockets, id \in Ids \cup {NoId}, a \in Users :
          MarkSeen(s, id, a)
    \/ \E k \in Seens : SeenUpdate(k)
    \/ \E k \in Seens : SeenNotify(k)

Signalling ==
    \E s \in Sockets, k \in {"typing", "stop_typing"}, r \in Signals :
        Typing(s, k, r.sender, r.receiver)

Next == Presence \/ Sending \/ Seeing

NextTyping == Presence \/ Sending \/ Signalling

Spec == Init /\ [][Next]_vars

SpecTyping == InitTyping /\ [][NextTyping]_vars

SpecSeen == InitSeen /\ [][Next]_vars

\* the store may reject a save of the flush
Failing == \E j \in Joins, id \in Ids : FlushSaveFail(j, id)

NextFail == Presence \/ Sending \/ Failing

SpecFail == InitFail /\ [][NextFail]_vars

NextFlush == Presence \/ Sending

SpecFlush == InitFlush /\ [][NextFlush]_vars

\* the requests that pass the schema's validators
Wellformed == {r \in Requests : Valid(r)}

\* send_message where no save rejects
SendingLive ==
    \/ \E s \in Sockets, r \in Wellformed : SendMessage(s, r)
    \/ \E id \in Ids : SendInsert(id)
    \/ \E id \in Ids : SendEmit(id)
    \/ \E id \in Ids : SendUpdate(id)
    \/ \E id \in Ids : SendNotify(id)

NextLive == Presence \/ SendingLive

\* the store answers every call made to it, and the continuation of a
\* resolved promise runs
Fairness ==
    /\ \A j \in Joins : WF_vars(FlushFind(j))
    /\ \A j \in Joins, id \in Ids : WF_vars(FlushSave(j, id))
    /\ \A id \in Ids : WF_vars(SendUpdate(id))

SpecLive == InitLive /\ [][NextLive]_vars /\ Fairness

(* ======================= properties of the code ======================== *)
Rank(st) == CASE st = "sent" -> 1 [] st = "delivered" -> 2 [] st = "seen" -> 3

\* the number of ev events emitted for message id so far
Count(id, ev) ==
    Cardinality({e \in 1..Len(emitted[id]) : emitted[id][e].event = ev})

\* C1: the stored status of every message only ever stays or moves one step
\* along sent, delivered, seen: it never goes back and never goes from sent
\* to seen directly.
MonotonicStatus ==
    [][\A id \in DOMAIN db :
          Rank(db'[id].status) \in {Rank(db[id].status), Rank(db[id].status) + 1}]_vars

\* the events of one kind emitted for message id, in order
Events(id, ev) == SelectSeq(emitted[id], LAMBDA e : e.event = ev)

\* a mark_seen for message id has been executed by the store
SeenApplied(id) ==
    \E k \in 1..Len(seens) : seens[k].id = id /\ seens[k].pc # "update"

\* the flushes that picked message id up / that are through with it
Found(id) == {j \in 1..Len(joins) : id \in joins[j].found}
Flushed(id) == {j \in Found(id) : id \notin joins[j].saving \cup joins[j].saved}

\* the send handler of message id has ended, its receiver being absent from
\* the registry at the presence check
SentOffline(id) ==
    /\ id \in DOMAIN sends
    /\ sends[id].pc = "done"
    /\ sends[id].status = "sent"

\* C2, as claimed: a message a registered sender sent to an absent receiver
\* is stored as sent with no message_delivered event, and once the receiver
\* has joined and its flush is through with the message, exactly one
\* message_delivered event was emitted for it and the stored status is
\* delivered (unless a mark_seen changed it).
OfflineThenReconnect ==
    \A id \in Ids :
        (SentOffline(id) /\ sends[id].registered /\ ~SeenApplied(id)) =>
            /\ Found(id) = {} =>
                   db[id].status = "sent" /\ Count(id, "message_delivered") = 0
            /\ (Found(id) # {} /\ Flushed(id) = Found(id)) =>
                   db[id].status = "delivered"
                   /\ Count(id, "message_delivered") = 1

\* C2, amended: such a message is stored as sent with no message_delivered
\* event; every flush of the receiver that found it pending writes delivered,
\* and when that write is done emits one message_delivered event to the
\* sender's room if and only if the sender is in the registry at that moment.
\* So there are at most as many such events as flushes that found the message.
OfflineThenFlushInv ==
    \A id \in Ids :
        SentOffline(id) =>
            /\ Count(id, "message_delivered") <= Cardinality(Flushed(id))
            /\ \A e \in 1..Len(emitted[id]) :
                   emitted[id][e].event = "message_delivered" =>
                       emitted[id][e].room = sends[id].sender
            /\ (Found(id) = {} /\ ~SeenApplied(id)) => db[id].status = "sent"
            /\ ((\E j \in Found(id) : id \notin joins[j].saving)
                    /\ ~SeenApplied(id)) => db[id].status = "delivered"

OfflineThenFlushStep ==
    \A id \in Ids : \A j \in 1..Len(joins) :
        (id \in joins[j].saved /\ id \notin joins'[j].saved) =>
            emitted'[id] =
                IF Online(db[id].sender)
                THEN Append(emitted[id],
                            Receipt("message_delivered", db[id].sender, id))
                ELSE emitted[id]

\* C2, amended: the invariant and the step property above, together.
OfflineThenFlush == []OfflineThenFlushInv /\ [][OfflineThenFlushStep]_vars

\* C2, witness: a registered sender's message to an absent receiver that a
\* later flush delivered, with its one message_delivered event
OfflineThenFlushWitness ==
    \E id \in Ids :
        /\ SentOffline(id) /\ sends[id].registered
        /\ Flushed(id) # {}
        /\ db[id].status = "delivered"
        /\ Count(id, "message_delivered") = 1

\* the send handler of message id has emitted receive_message
Emitted(id) == id \in DOMAIN sends /\ sends[id].pc \in {"update", "updated", "done"}

\* the step in which the send handler of message id resumes after its first
\* save: the two emits and the presence check
EmitStep(id) ==
    /\ id \in DOMAIN sends
    /\ sends[id].pc = "inserted"
    /\ sends'[id].pc # "inserted"

\* the contents of a receive_message event
Content(e) == <<e.id, e.sender, e.receiver, e.message, e.status>>

\* C3: a send from A to B emits receive_message exactly once to A's room and
\* exactly once to B's room, both with the same message content; the emit
\* reaches the connections that are in the room at that moment, among them
\* the registered connection of A, respectively of B, if it is open.
DualEmissionInv ==
    \A id \in DOMAIN sends :
        LET rm == Events(id, "receive_message") IN
        IF Emitted(id)
        THEN /\ Len(rm) = 2
             /\ rm[1].room = sends[id].sender
             /\ rm[2].room = sends[id].receiver
             /\ Content(rm[1]) = Content(rm[2])
             /\ Content(rm[1]) = <<id, sends[id].sender, sends[id].receiver,
                                   sends[id].message, "sent">>
        ELSE rm = <<>>

DualEmissionStep ==
    \A id \in Ids :
        EmitStep(id) =>
            LET rm == SelectSeq(emitted'[id],
                                LAMBDA e : e.event = "receive_message") IN
            /\ Len(rm) = 2
            /\ rm[1].to = Room(sends[id].sender)
            /\ rm[2].to = Room(sends[id].receiver)
            /\ \A u \in {sends[id].sender, sends[id].receiver} :
                   Lookup(onlineUsers, u) \in open =>
                       Lookup(onlineUsers, u) \in Room(u)

\* C3: the invariant and the step property above, together.
DualEmission == []DualEmissionInv /\ [][DualEmissionStep]_vars

\* C3, witness: a message was emitted while a connection was in the
\* sender's room and one in the receiver's room, the receiver registered
DualEmissionWitness ==
    \E id \in DOMAIN sends :
        /\ Emitted(id)
        /\ sends[id].registered
        /\ sends[id].status = "delivered"
        /\ \A e \in 1..Len(emitted[id]) :
               emitted[id][e].event = "receive_message" => emitted[id][e].to # {}

\* the step in which the send handler of message id ends without a failure
Completes(id) ==
    /\ id \in DOMAIN sends
    /\ sends[id].pc \in {"inserted", "updated"}
    /\ sends'[id].pc = "done"

\* C4, as claimed: when a send handler ends, the stored status of its message
\* is delivered if the receiver was registered at the moment of the emits and
\* sent if it was not (unless a mark_seen changed it).
SendOutcome ==
    [][\A id \in Ids :
          /\ EmitStep(id) =>
                (sends'[id].status = "delivered" <=> Online(sends[id].receiver))
          /\ Completes(id) =>
                db'[id].status = sends'[id].status \/ SeenApplied(id)]_vars

\* C4, amended: the status the handler itself wrote last is delivered if the
\* receiver was registered at the moment of the emits, and sent (the insert,
\* its only write) if it was not.  The stored status at the end of the handler
\* differs from that only through another handler: a mark_seen, or a flush
\* that found the message between its insert and the presence check.
SendOutcomeWrites ==
    [][\A id \in Ids :
          /\ EmitStep(id) =>
                /\ db' = db
                /\ IF Online(sends[id].receiver)
                   THEN sends'[id].pc = "update" /\ sends'[id].status = "delivered"
                   ELSE sends'[id].pc = "done" /\ sends'[id].status = "sent"
          /\ (id \in DOMAIN sends /\ sends[id].pc = "update"
                /\ sends'[id].pc = "updated") => db'[id].status = "delivered"
          /\ Completes(id) =>
                \/ db'[id].status = sends'[id].status
                \/ SeenApplied(id)
                \/ sends'[id].status = "sent" /\ Found(id) # {}]_vars

\* C4, witness: both outcomes have happened and been stored
SendOutcomeWitness ==
    \E id \in DOMAIN sends :
        /\ sends[id].pc = "done"
        /\ sends[id].status = "delivered"
        /\ db[id].status = "delivered"

SendOutcomeWitnessSent ==
    \E id \in DOMAIN sends :
        sends[id].pc = "done" /\ sends[id].status = "sent" /\ db[id].status = "sent"

\* the join handlers of identity u, and the one that ran last
JoinsOf(u) == {j \in 1..Len(joins) : joins[j].user = u}
LastJoin(u) == CHOOSE j \in JoinsOf(u) : \A k \in JoinsOf(u) : k <= j

\* the step in which a join handler registers
JoinStep == Len(joins') = Len(joins) + 1

\* C5: the registry never holds two entries for one identity, a join makes
\* the lookup of its identity yield the joining connection and changes no
\* other identity's entry, and whenever an identity is registered its lookup
\* yields the connection that joined as it last.
PresenceExclusivityInv ==
    /\ \A i, k \in 1..Len(onlineUsers) :
           onlineUsers[i].user = onlineUsers[k].user => i = k
    /\ \A u \in Users :
           Online(u) =>
               JoinsOf(u) # {} /\ Lookup(onlineUsers, u) = joins[LastJoin(u)].sock

PresenceExclusivityStep ==
    JoinStep =>
        LET n == joins'[Len(joins')] IN
        /\ Lookup(onlineUsers', n.user) = n.sock
        /\ \A u \in Users \ {n.user} :
               Lookup(onlineUsers', u) = Lookup(onlineUsers, u)

Gone(u) == JoinsOf(u) # {} /\ \A j \in JoinsOf(u) : joins[j].sock \notin open

\* C6, as claimed: once the connections that joined as U are closed, U is not
\* in the registry, and a message then sent to U stays sent, with no
\* message_delivered event and nothing delivered to any connection for U.
DisconnectCleanupStep ==
    \A id \in Ids :
        (EmitStep(id) /\ Gone(sends[id].receiver)) =>
            /\ sends'[id].pc = "done"
            /\ sends'[id].status = "sent"
            /\ \A e \in 1..Len(emitted'[id]) :
                   emitted'[id][e].room = sends[id].receiver =>
                       emitted'[id][e].to = {}

\* C6, as claimed: the registry part in every state, the send part at every
\* emit step.
DisconnectCleanup ==
    /\ [](alive => \A u \in Users : Gone(u) => ~Online(u))
    /\ [][DisconnectCleanupStep]_vars

\* the entries of a registry
Entries(reg) == {reg[i] : i \in 1..Len(reg)}

\* the step in which connection s closes and its disconnect handler runs
DisconnectStep(s) == alive' /\ s \in open /\ s \notin open'

\* C7: a disconnect removes at most one entry, and only an entry that holds
\* the closing connection; every other entry stays as it is, and the
\* registry is unchanged if no entry holds the closing connection.
ExactUnregister ==
    [][\A s \in Sockets :
          DisconnectStep(s) =>
              /\ Entries(onlineUsers') \subseteq Entries(onlineUsers)
              /\ \A e \in Entries(onlineUsers) \ Entries(onlineUsers') : e.id = s
              /\ Len(onlineUsers') >= Len(onlineUsers) - 1
              /\ (\A e \in Entries(onlineUsers) : e.id # s) =>
                     onlineUsers' = onlineUsers]_vars

\* C7, witness: U joined from an older and from a newer connection, the
\* older one is closed, and U is registered with the newer one
ExactUnregisterWitness ==
    \E u \in Users : \E j \in JoinsOf(u) :
        /\ j < LastJoin(u)
        /\ joins[j].sock \notin open
        /\ joins[LastJoin(u)].sock \in open
        /\ joins[j].sock # joins[LastJoin(u)].sock
        /\ Lookup(onlineUsers, u) = joins[LastJoin(u)].sock

\* the step in which a typing or stop_typing handler runs
TypingStep == quota'["typing"] < quota["typing"]

\* C8: a typing or stop_typing request changes neither the registry nor the
\* store nor the message events; toward a receiver that is not registered it
\* emits nothing, toward a registered receiver it emits one event with the
\* sender's identity to the receiver's room alone.
TypingDrop ==
    [][TypingStep =>
          /\ UNCHANGED <<alive, open, rooms, onlineUsers, db, sends, joins,
                         seens, emitted>>
          /\ \E r \in Signals :
                IF Online(r.receiver)
                THEN \E k \in {"typing", "stop_typing"} :
                        signals' = Append(signals,
                            [event |-> k, room |-> r.receiver, id |-> NoId,
                             sender |-> r.sender, receiver |-> "",
                             message |-> "", status |-> "",
                             to |-> Room(r.receiver)])
                ELSE signals' = signals]_vars

\* C8, witness: a typing request toward an absent receiver was handled while
\* somebody was registered and a message was stored, and nothing was emitted
TypingDropWitness ==
    /\ quota["typing"] < MaxTyping
    /\ signals = <<>>
    /\ onlineUsers # <<>>
    /\ DOMAIN db # {}

\* C8, witness: a typing request toward a registered receiver reached it
TypingDeliveredWitness ==
    /\ Len(signals) = 1
    /\ signals[1].to # {}

\* the step in which the store executes the update of mark_seen handler k
SeenStep(k) ==
    /\ k \in 1..Len(seens)
    /\ seens[k].pc = "update"
    /\ seens'[k].pc = "updated"

\* C9: every application of mark_seen to a stored message, the first and any
\* later one, leaves that message's stored status seen and every other stored
\* message as it was, and the handler goes on to its notification; nor does
\* the notification change a stored message.
IdempotentSeen ==
    [][\A k \in Seens :
          /\ SeenStep(k) =>
                /\ alive'
                /\ DOMAIN db' = DOMAIN db
                /\ \A id \in DOMAIN db :
                      db'[id] = IF id = seens[k].id
                                THEN [db[id] EXCEPT !.status = "seen"]
                                ELSE db[id]
          /\ (k \in 1..Len(seens) /\ seens[k].pc = "updated"
                /\ seens'[k].pc # "updated") =>
                seens'[k].pc = "done" /\ db' = db /\ alive']_vars

\* C9, witness: mark_seen was applied twice to one stored message, both
\* handlers have ended, the message is seen and another stored message is not
IdempotentSeenWitness ==
    /\ Len(seens) = 2
    /\ seens[1].id = seens[2].id
    /\ seens[1].id \in DOMAIN db
    /\ seens[1].pc = "done" /\ seens[2].pc = "done"
    /\ db[seens[1].id].status = "seen"
    /\ \E id \in DOMAIN db : db[id].status # "seen"

\* the step in which the first save of the send handler of message id rejects
InsertFails(id) ==
    /\ id \in DOMAIN sends
    /\ sends[id].pc = "insert"
    /\ sends'[id].pc = "failed"

\* C10, as claimed: a send handler whose first save fails stores no message
\* and emits nothing, and the registry, the connections and every other
\* handler in flight are as they were and go on.
SendFailure ==
    /\ [](\A id \in DOMAIN sends :
             sends[id].pc = "failed" => id \notin DOMAIN db /\ emitted[id] = <<>>)
    /\ [][\A id \in Ids :
             InsertFails(id) =>
                 /\ alive'
                 /\ UNCHANGED <<open, rooms, onlineUsers, db, joins, seens,
                                emitted, signals>>
                 /\ \A i \in DOMAIN sends \ {id} : sends'[i] = sends[i]]_vars

\* C10 without the claim on the registry and the other handlers: a send
\* handler whose first save fails stores no message and emits nothing.
SendFailureQuiet ==
    /\ [](\A id \in DOMAIN sends :
             sends[id].pc = "failed" => id \notin DOMAIN db /\ emitted[id] = <<>>)
    /\ [][\A id \in Ids :
             InsertFails(id) => UNCHANGED <<db, emitted, signals>>]_vars

\* the send handler of message id was given a request with an empty sender,
\* receiver or message
Invalid(id) == id \in DOMAIN sends /\ ~Valid(sends[id])

\* C11, as claimed: a send request with an empty sender, receiver or message
\* is rejected with no side effect: no message is stored for it, no event is
\* emitted for it, and the rejection leaves the registry and the store as
\* they were.
InvalidSend ==
    /\ [](\A id \in DOMAIN sends :
             Invalid(id) => id \notin DOMAIN db /\ emitted[id] = <<>>)
    /\ [][\A id \in Ids :
             (Invalid(id) /\ InsertFails(id)) =>
                 UNCHANGED <<onlineUsers, db, emitted, signals>>]_vars

\* C11 without the claim on the registry: an invalid request is never stored
\* and nothing is emitted for it.
InvalidSendQuiet ==
    /\ [](\A id \in DOMAIN sends :
             Invalid(id) => id \notin DOMAIN db /\ emitted[id] = <<>>)
    /\ [][\A id \in Ids :
             (Invalid(id) /\ InsertFails(id)) =>
                 UNCHANGED <<db, emitted, signals>>]_vars

\* C12, as claimed: a message_seen event for a stored message reaches only
\* connections in the room of the sender stored with that message.
SeenTarget ==
    \A id \in DOMAIN db : \A e \in 1..Len(emitted[id]) :
        (emitted[id][e].event = "message_seen" /\ emitted[id][e].to # {}) =>
            emitted[id][e].room = db[id].sender

\* the step in which the save of pending message id in flush j rejects
FlushFails(j, id) ==
    /\ j \in 1..Len(joins)
    /\ id \in joins[j].saving
    /\ id \notin joins'[j].saving \cup joins'[j].saved

\* the pending messages flush j is still working on
InFlush(j) == joins[j].saving \cup joins[j].saved

\* C13, as claimed: when the update of one pending message of a flush fails,
\* the work on every other pending message of that flush goes on: the
\* process lives, and their saves and notifications are still to come.
FlushIsolation ==
    [][\A j \in Joins, id \in Ids :
          (FlushFails(j, id) /\ InFlush(j) \ {id} # {}) =>
              /\ alive'
              /\ joins'[j].saving = joins[j].saving \ {id}
              /\ joins'[j].saved = joins[j].saved
              /\ UNCHANGED <<db, emitted>>]_vars

\* C13 where the runtime only warns of the unhandled rejection: the work on
\* every other pending message of the flush is as it was.
FlushIsolationWarn ==
    [][\A j \in Joins, id \in Ids :
          (FlushFails(j, id) /\ alive') =>
              /\ joins'[j].saving = joins[j].saving \ {id}
              /\ joins'[j].saved = joins[j].saved
              /\ UNCHANGED <<db, emitted>>]_vars

\* the events a step adds to the log of message id
Added(id) ==
    {emitted'[id][k] : k \in (Len(emitted[id]) + 1)..Len(emitted'[id])}

\* C14, as claimed: a message_delivered or message_seen event reaches a
\* connection only if the identity it is emitted to is in the registry at
\* that moment.
BestEffort ==
    [][\A id \in Ids \cup {NoId} : \A e \in Added(id) :
          (e.event \in {"message_delivered", "message_seen"} /\ e.to # {}) =>
              Online(e.room)]_vars

\* the writes of status delivered issued and executed for message id so far:
\* one by each flush that saved it, one by the send handler's second save
DeliveredWrites(id) ==
    Cardinality(Flushed(id))
      + (IF id \in DOMAIN sends /\ sends[id].status = "delivered"
            /\ sends[id].pc \in {"updated", "done"}
         THEN 1 ELSE 0)

\* C15, as claimed: for every message at most one write sets its status to
\* delivered and at most one message_delivered event is emitted.
SingleDelivered ==
    \A id \in Ids :
        /\ DeliveredWrites(id) <= 1
        /\ Count(id, "message_delivered") <= 1

\* C15 for the events alone: at most one message_delivered event per message
SingleDeliveredEvent == \A id \in Ids : Count(id, "message_delivered") <= 1

\* C16: where no store call fails and the store answers every call, a message
\* to U that is stored with status sent while a join of U has its query in
\* flight eventually has a status other than sent, and so has a message
\* whose send handler found its receiver registered at the presence check.
FlushCompleteness ==
    /\ \A j \in Joins, id \in Ids :
          (j \in 1..Len(joins) /\ joins[j].pc = "find"
             /\ id \in Pending(joins[j].user))
          ~> (id \in DOMAIN db /\ db[id].status # "sent")
    /\ \A id \in Ids :
          (id \in DOMAIN sends /\ sends[id].pc = "update")
          ~> (id \in DOMAIN db /\ db[id].status # "sent")

\* C16, witness: a message was sent while its receiver was absent from the
\* registry, a later join found it with status sent, and it is stored as
\* delivered
FlushCompletenessWitness ==
    \E id \in DOMAIN db :
        /\ SentOffline(id)
        /\ Flushed(id) # {}
        /\ db[id].status = "delivered"

\* C17: a disconnect changes no stored message and emits no event; a message
\* with status sent that is addressed to an identity of the closing
\* connection has status sent right after the disconnect.
DisconnectFrame ==
    [][\A s \in Sockets :
          DisconnectStep(s) =>
              /\ UNCHANGED <<db, emitted, signals>>
              /\ \A u \in rooms[s] : \A id \in Pending(u) :
                     db'[id].status = "sent"]_vars

\* C17, witness: a message to U was stored and its send handler found U
\* registered; the connections that joined as U have closed since, U is not
\* in the registry, and the message is stored with status sent
DisconnectFrameWitness ==
    \E id \in DOMAIN db :
        /\ db[id].status = "sent"
        /\ sends[id].pc = "update"
        /\ Gone(db[id].receiver)
        /\ ~Online(db[id].receiver)
        /\ alive

\* C18, as claimed: every registry entry holds a connection that is open.
NoStalePresence == \A e \in Entries(onlineUsers) : e.id \in open

\* C19, as claimed: whenever a message_delivered event for a message reaches
\* a connection of the sender, a receive_message event for that message was
\* emitted to the sender's room before it.
DeliveredAfterReceive ==
    \A id \in Ids : \A k \in 1..Len(emitted[id]) :
        (emitted[id][k].event = "message_delivered" /\ emitted[id][k].to # {}) =>
            \E i \in 1..(k - 1) :
                /\ emitted[id][i].event = "receive_message"
                /\ emitted[id][i].room = emitted[id][k].room

\* the step in which the stored status of message id is written to delivered
DeliveredStep(id) ==
    /\ id \in DOMAIN db
    /\ db[id].status # "delivered"
    /\ db'[id].status = "delivered"

\* C20, as claimed: the stored status of a message is written to delivered
\* only while its receiver is in the registry with a connection that is open.
DeliveredReachable ==
    [][\A id \in Ids :
          DeliveredStep(id) =>
              /\ Online(db[id].receiver)
              /\ Lookup(onlineUsers, db[id].receiver) \in open]_vars
====
